---- MODULE Spec2Model ----
(***************************************************************************)
(* Model of vector_add.c: an OpenCL host program that uploads two integer  *)
(* vectors, runs the kernel  C[idx] = A[idx] + B[idx]  over a              *)
(* one-dimensional index space, reads the result back and prints it.       *)
(*                                                                         *)
(* The host is one sequential process (pc).  The device drains one         *)
(* in-order command queue; the work-items of a kernel command execute in   *)
(* any order.  Every OpenCL entry point may fail (negative status); a call *)
(* that is handed a NULL handle fails, a call that is handed an            *)
(* uninitialised handle (an out-parameter the failed lookup never wrote)   *)
(* has undefined behaviour: the runtime may accept it, reject it or crash. *)
(***************************************************************************)
EXTENDS Integers, Sequences, FiniteSets, TLC

VARIABLES
  pc,          \* host position in main()
  status,      \* cl_int status (line 60)
  handles,     \* platform, device, context, cmdQueue, bufA, bufB, bufC, program, kernel
  built,       \* the program object has been built for the device
  kernelArgs,  \* argument slot 0..2 of the kernel object -> bound buffer
  A, B, C,     \* host arrays (malloc'ed, lines 48-50)
  out,         \* lines printed to standard output; once the process is dead,
               \* the whole lines standard output holds
  exitStatus,  \* process exit status, -1 while the process runs
  calls,       \* history: every device-API call issued, with the status it returned
  faults,      \* history: number of spontaneous failures (malloc, API calls) so far
  queue,       \* commands enqueued on cmdQueue and not yet complete
  todo,        \* work-items of the running kernel command not yet executed
  devMem,      \* contents of the device buffers
  accesses,    \* history: <<work-item, "r"|"w", buffer, index>> of every kernel access
  completed,   \* history: the commands the device has completed, in order
  printedIdx,  \* history: the index of C each printed value line came from
  printedAt,   \* history: work-items still pending when line 120 was printed
  relCount,    \* history: per handle, number of release calls that hit the live object
  relOrder,    \* history: handles in the order they were released
  usedAfterRelease, \* history: a released handle was passed to a device-API call
  i,           \* loop counter of the print loop (line 135)
  platforms,   \* the number of OpenCL platforms installed on the machine
  hostPtr,     \* the pointers A, B, C returned by malloc (lines 48-50)
  indeterminate, \* the cells <<array, index>> of host and device memory whose
               \* value is indeterminate: never written, or copied or computed
               \* from such a cell; the cell holds some int, any int (the
               \* arrays A, B, C and devMem carry 0 in these cells)
  outCut,      \* <<>>, or <<line>>: standard output ends in a cut-off part of line
  dpc, dgroup, dlocal, assigned  \* NDRange decomposition of the real index space

hostVars == <<pc, status, handles, built, kernelArgs, A, B, C, out, exitStatus,
              calls, faults, i, hostPtr, platforms, outCut>>
devVars == <<queue, todo, devMem, accesses, completed>>
memVars == <<devVars, indeterminate>>
histVars == <<printedAt, relCount, relOrder, usedAfterRelease, printedIdx>>
dispatchVars == <<dpc, dgroup, dlocal, assigned>>
vars == <<hostVars, memVars, histVars, dispatchVars>>

----------------------------------------------------------------------------
(* Program constants *)

\* const int elements = 2048;
elements == 2048
\* a work-group size that does not divide the index space
workGroupSizeUneven == 256 + 128
\* workGroupSize[0] = 256;
workGroupSize == 256

(* Bounds of the state exploration.  The host/device state machine runs a *)
(* scaled-down launch: Groups work-groups (8 in the program) of Local     *)
(* work-items each (the program's work-group size divided by 128).  The   *)
(* real sizes above are used by the dispatch specification.               *)
Groups == 2
Local == workGroupSize \div 128
\* at most this many spontaneous (resource) failures of API calls per run
MaxFaults == 1

N == Groups * Local
Idx == 0 .. (N - 1)

\* status codes of CL/cl.h
CL_SUCCESS == 0
CL_OUT_OF_RESOURCES == -5
CL_INVALID_VALUE == -30
\* clGetPlatformIDs when no platform is installed (CL/cl_ext.h)
CL_PLATFORM_NOT_FOUND_KHR == -1001

HandleNames == {"platform", "device", "context", "cmdQueue", "bufA", "bufB",
                "bufC", "program", "kernel"}
Buffers == {"bufA", "bufB", "bufC"}
HostArrays == {"A", "B", "C"}

----------------------------------------------------------------------------
(* Pure helpers *)

\* int addition of the kernel: 32-bit two's complement, wrapping around
INT_MAX == 2147483647
INT_MIN == (0 - INT_MAX) - 1
Add32(x, y) ==
  IF y > 0 /\ x > INT_MAX - y THEN ((x - INT_MAX) - 1) + ((y - INT_MAX) - 1)
  ELSE IF y < 0 /\ x < INT_MIN - y THEN ((x + INT_MAX) + 1) + ((y + INT_MAX) + 1)
  ELSE x + y

\* the line printf("%d") prints for an indeterminate int: the decimal form
\* of whatever int the memory holds
AnyIntLine == "<any int>"
\* the line printed for cell j of array arr, which holds held[j]
Shown(arr, held, j) ==
  IF <<arr, j>> \in indeterminate THEN AnyIntLine ELSE ToString(held[j])
\* memory mem with the cells of ind, whose value is indeterminate, carrying 0
Blanked(mem, ind) ==
  [b \in DOMAIN mem |-> [j \in DOMAIN mem[b] |->
     IF <<b, j>> \in ind THEN 0 ELSE mem[b][j]]]
\* copying src onto dst (a transfer) copies indeterminate cells as such
CopiedOnto(dst, src) ==
  {c \in indeterminate : c[1] # dst}
    \cup {<<dst, c[2]>> : c \in {d \in indeterminate : d[1] = src}}

\* process exit status seen by the parent for exit(code)
ExitCodeOf(code) == code % 256

\* a check() that never exits
checkIgnores(st) == FALSE
\* a check() that tests for the wrong sign
checkWrongSign(st) == st > 0
\* check(): TRUE when the helper prints the error and exits
check(st) == st < 0

\* a handle the runtime accepts: a created object, or an uninitialised
\* out-parameter whose stale contents the runtime happens to accept
Usable(h) == h \in {"valid", "stale"}

\* NDRange decomposition (clEnqueueNDRangeKernel): the work-items of a launch
\* of global size gsz in work-groups of size lsz, and get_global_id(0)
NumGroupsOf(gsz, lsz) == gsz \div lsz
WorkItems(gsz, lsz) ==
  {<<g, l>> : g \in 0 .. (NumGroupsOf(gsz, lsz) - 1), l \in 0 .. (lsz - 1)}
GlobalId(w, lsz) == w[1] * lsz + w[2]
\* the launch is rejected (CL_INVALID_WORK_GROUP_SIZE) unless lsz divides gsz
RangeOk(gsz, lsz) == lsz > 0 /\ gsz % lsz = 0

\* the kernel vecadd: what work-item idx reads and writes, as
\* <<argument slot, element index>>
KernelReads(idx) == {<<0, idx>>, <<1, idx>>}
\* the store indexed by the local id instead of the global id
KernelWritesLocalId(idx) == {<<2, idx % Local>>}
KernelWrites(idx) == {<<2, idx>>}

----------------------------------------------------------------------------
(* Outcomes of a device-API call *)

\* hs: the handles passed to the call; pre: the call's other preconditions.
\*   "ok"      the call succeeds
\*   "fault"   the call fails on its own (out of resources, compile error, ...)
\*   "invalid" the runtime rejects an argument
\*   "notfound" clGetPlatformIDs finds no platform
\*   "crash"   the runtime dereferences a wild handle and the process dies
CallOutcomes(hs, pre) ==
  IF \E h \in hs : handles[h] = "wild" THEN {"invalid", "crash"}
  ELSE IF (\E h \in hs : ~Usable(handles[h])) \/ ~pre THEN {"invalid"}
  ELSE {"ok"} \cup (IF faults < MaxFaults THEN {"fault"} ELSE {})

StatusOf(o) ==
  CASE o = "ok" -> CL_SUCCESS
    [] o = "fault" -> CL_OUT_OF_RESOURCES
    [] o = "notfound" -> CL_PLATFORM_NOT_FOUND_KHR
    [] OTHER -> CL_INVALID_VALUE

\* an out-parameter the failed call never wrote keeps its uninitialised
\* contents: the runtime will later accept them ("stale") or not ("wild")
Uninitialised == {"stale", "wild"}

\* bookkeeping common to every call that returns: the history of calls, the
\* fault count, and a use of an already released handle
Returned(api, hs, o) ==
  /\ calls' = Append(calls, <<api, StatusOf(o)>>)
  /\ faults' = IF o = "fault" THEN faults + 1 ELSE faults
  /\ usedAfterRelease' =
       (usedAfterRelease \/ \E h \in hs : handles[h] = "released")

\* what standard output holds of the lines printed so far when the process
\* is killed: every line (a terminal, line-buffered), or only the blocks
\* stdio had flushed (a pipe or file, block-buffered): nothing while only
\* the diagnostic lines were printed, which never fill a block; in the
\* print loop the diagnostic lines and the value lines up to the end of
\* the last full block, which can fall inside a line (cut: that line)
WrittenAtKill(printed) ==
  LET first == Len(printed) - Len(printedIdx)
  IN  {[lines |-> SubSeq(printed, 1, k), cut |-> <<>>] :
         k \in {0} \cup (first .. Len(printed))}
        \cup {[lines |-> SubSeq(printed, 1, k - 1), cut |-> <<printed[k]>>] :
                k \in (first + 1) .. Len(printed)}

\* the process is killed by a signal (SIGSEGV), inside the runtime or in the
\* kernel; the lines printf left in the stdio buffer are never written.
\* lines: what the statement being executed printed before the kill
Killed(lines) ==
  /\ pc' = "crashed"
  /\ exitStatus' = 128 + 11
  /\ \E w \in WrittenAtKill(out \o lines) :
       /\ out' = w.lines
       /\ outCut' = w.cut
  /\ UNCHANGED <<status, handles, built, kernelArgs, A, B, C, calls,
                 faults, i, hostPtr, platforms, indeterminate, usedAfterRelease>>

Crashed == Killed(<<>>)

\* status = <call>; with no check: execution continues at next
Unchecked(api, hs, o, next) ==
  /\ Returned(api, hs, o)
  /\ status' = StatusOf(o)
  /\ pc' = next
  /\ UNCHANGED <<exitStatus, out, outCut>>

\* printf(lines); status = <call>; check(status);
Checked(api, hs, o, lines, next) ==
  /\ Returned(api, hs, o)
  /\ status' = StatusOf(o)
  /\ IF check(StatusOf(o))
     THEN /\ out' = out \o lines \o <<"ERROR. Exiting...">>
          /\ pc' = "aborted"
          /\ exitStatus' = ExitCodeOf(0 - 1)
     ELSE /\ out' = out \o lines
          /\ pc' = next
          /\ UNCHANGED exitStatus
  /\ UNCHANGED outCut

----------------------------------------------------------------------------
(* The host: main() *)

Running == exitStatus = 0 - 1

\* lines 48-50: the three malloc calls; each returns memory that was never
\* written, or NULL when the allocation fails
Malloc ==
  /\ pc = "init"
  /\ \E failed \in SUBSET HostArrays :
       /\ faults + Cardinality(failed) <= MaxFaults
       /\ hostPtr' = [x \in HostArrays |-> IF x \in failed THEN "null" ELSE "valid"]
       /\ faults' = faults + Cardinality(failed)
  /\ pc' = "initInputs"
  /\ UNCHANGED <<status, handles, built, kernelArgs, A, B, C, out, outCut, exitStatus,
                 calls, i, platforms, memVars, histVars, dispatchVars>>

\* lines 54-57: fill A and B with 1; the first store through a NULL pointer
\* kills the process
InitInputs ==
  /\ pc = "initInputs"
  /\ IF hostPtr["A"] = "null" \/ hostPtr["B"] = "null"
     THEN /\ Killed(<<>>)
          /\ UNCHANGED <<memVars, printedAt, relCount, relOrder, printedIdx>>
     ELSE /\ A' = [j \in Idx |-> 1]
          /\ B' = [j \in Idx |-> 1]
          /\ indeterminate' = {c \in indeterminate : c[1] \notin {"A", "B"}}
          /\ pc' = "getPlatform"
          /\ UNCHANGED <<status, handles, built, kernelArgs, C, out, outCut, exitStatus,
                         calls, faults, i, hostPtr, platforms, devVars, histVars>>
  /\ UNCHANGED dispatchVars

\* line 64: status = clGetPlatformIDs(1, &platform, NULL);
\* With no platform installed the call fails and no value of `platform`
\* is a platform: whatever the uninitialised variable holds, the runtime
\* rejects it or dies on it.
GetPlatformIDs ==
  /\ pc = "getPlatform"
  /\ \E o \in (IF platforms = 0 THEN {"notfound"} ELSE CallOutcomes({}, TRUE)) :
       /\ Unchecked("clGetPlatformIDs", {}, o, "getDevice")
       /\ \E h \in (IF o = "ok" THEN {"valid"}
                    ELSE IF platforms = 0 THEN {"wild"} ELSE Uninitialised) :
            handles' = [handles EXCEPT !["platform"] = h]
  /\ UNCHANGED <<built, kernelArgs, A, B, C, i, hostPtr, platforms, memVars, printedAt, relCount,
                 relOrder, printedIdx, dispatchVars>>

\* line 68: status = clGetDeviceIDs(platform, CL_DEVICE_TYPE_ALL, 1, &device, NULL);
\* With no platform there is no device either: no value of the
\* uninitialised `device` is one.
GetDeviceIDs ==
  /\ pc = "getDevice"
  /\ \E o \in CallOutcomes({"platform"}, TRUE) :
       IF o = "crash" THEN Crashed
       ELSE /\ Unchecked("clGetDeviceIDs", {"platform"}, o, "createContext")
            /\ \E h \in (IF o = "ok" THEN {"valid"}
                         ELSE IF platforms = 0 THEN {"wild"} ELSE Uninitialised) :
                 handles' = [handles EXCEPT !["device"] = h]
  /\ UNCHANGED <<built, kernelArgs, A, B, C, i, hostPtr, platforms, memVars, printedAt, relCount,
                 relOrder, printedIdx, dispatchVars>>

\* a clCreate* call returning the object, or NULL when it fails
Created(name, o) ==
  handles' = [handles EXCEPT ![name] = IF o = "ok" THEN "valid" ELSE "null"]

\* line 71: context = clCreateContext(NULL, 1, &device, NULL, NULL, &status);
CreateContext ==
  /\ pc = "createContext"
  /\ \E o \in CallOutcomes({"device"}, TRUE) :
       IF o = "crash" THEN Crashed /\ UNCHANGED handles
       ELSE /\ Unchecked("clCreateContext", {"device"}, o, "createQueue")
            /\ Created("context", o)
  /\ UNCHANGED <<built, kernelArgs, A, B, C, i, hostPtr, platforms, memVars, printedAt, relCount,
                 relOrder, printedIdx, dispatchVars>>

\* line 74: cmdQueue = clCreateCommandQueueWithPropertiesAPPLE(context, device, 0, &status);
\* properties 0: an in-order queue
CreateCommandQueue ==
  /\ pc = "createQueue"
  /\ \E o \in CallOutcomes({"context", "device"}, TRUE) :
       IF o = "crash" THEN Crashed /\ UNCHANGED handles
       ELSE /\ Unchecked("clCreateCommandQueue", {"context", "device"}, o, "createBufA")
            /\ Created("cmdQueue", o)
  /\ UNCHANGED <<built, kernelArgs, A, B, C, i, hostPtr, platforms, memVars, printedAt, relCount,
                 relOrder, printedIdx, dispatchVars>>

\* lines 77-79: bufX = clCreateBuffer(context, flags, datasize, NULL, &status);
CreateBuffer(at, buf, next) ==
  /\ pc = at
  /\ \E o \in CallOutcomes({"context"}, TRUE) :
       /\ Unchecked("clCreateBuffer", {"context"}, o, next)
       /\ Created(buf, o)
  /\ UNCHANGED <<built, kernelArgs, A, B, C, i, hostPtr, platforms, memVars, printedAt, relCount,
                 relOrder, printedIdx, dispatchVars>>

CreateBufA == CreateBuffer("createBufA", "bufA", "createBufB")
CreateBufB == CreateBuffer("createBufB", "bufB", "createBufC")
CreateBufC == CreateBuffer("createBufC", "bufC", "writeA")

\* the host array a write command copies from, and the buffer it fills
HostArrayOf(cmd) == IF cmd = "writeA" THEN "A" ELSE "B"
TargetOf(cmd) == IF cmd = "writeA" THEN "bufA" ELSE "bufB"

\* lines 82-83: status = clEnqueueWriteBuffer(cmdQueue, bufX, CL_FALSE, 0, datasize, X, ...);
\* non-blocking: the copy happens when the device reaches the command
EnqueueWriteBuffer(at, buf, cmd, next) ==
  /\ pc = at
  /\ \E o \in CallOutcomes({"cmdQueue", buf}, hostPtr[HostArrayOf(cmd)] = "valid") :
       /\ Unchecked("clEnqueueWriteBuffer", {"cmdQueue", buf}, o, next)
       /\ queue' = IF o = "ok" THEN Append(queue, cmd) ELSE queue
  /\ UNCHANGED <<handles, built, kernelArgs, A, B, C, i, hostPtr, platforms, indeterminate, todo, devMem, accesses, completed,
                 printedAt, relCount, relOrder, printedIdx, dispatchVars>>

EnqueueWriteA == EnqueueWriteBuffer("writeA", "bufA", "writeA", "writeB")
EnqueueWriteB == EnqueueWriteBuffer("writeB", "bufB", "writeB", "createProgram")

\* lines 86-88
CreateProgramWithSource ==
  /\ pc = "createProgram"
  /\ \E o \in CallOutcomes({"context"}, TRUE) :
       /\ Checked("clCreateProgramWithSource", {"context"}, o,
                  <<"Create a program with source code">>, "build")
       /\ Created("program", o)
  /\ UNCHANGED <<built, kernelArgs, A, B, C, i, hostPtr, platforms, memVars, printedAt, relCount,
                 relOrder, printedIdx, dispatchVars>>

\* lines 91-93
BuildProgram ==
  /\ pc = "build"
  /\ \E o \in CallOutcomes({"program", "device"}, TRUE) :
       /\ Checked("clBuildProgram", {"program", "device"}, o,
                  <<"Build (compile) the program for the device">>, "createKernel")
       /\ built' = (o = "ok")
  /\ UNCHANGED <<handles, kernelArgs, A, B, C, i, hostPtr, platforms, memVars, printedAt, relCount,
                 relOrder, printedIdx, dispatchVars>>

\* lines 96-98
CreateKernel ==
  /\ pc = "createKernel"
  /\ \E o \in CallOutcomes({"program"}, built) :
       /\ Checked("clCreateKernel", {"program"}, o,
                  <<"Create the vector addition kernel">>, "setArg0")
       /\ Created("kernel", o)
  /\ UNCHANGED <<built, kernelArgs, A, B, C, i, hostPtr, platforms, memVars, printedAt, relCount,
                 relOrder, printedIdx, dispatchVars>>

\* the value clSetKernelArg stores: the buffer, or a NULL pointer when the
\* cl_mem variable holds NULL (allowed for a __global pointer argument)
ArgValue(buf) == IF Usable(handles[buf]) THEN buf ELSE "null"

\* a successful clSetKernelArg sets the slot; a failed one leaves it as it was
Bound(slot, buf, o) ==
  kernelArgs' = IF o = "ok" THEN [kernelArgs EXCEPT ![slot] = ArgValue(buf)]
                ELSE kernelArgs

\* lines 101-102: printf; status = clSetKernelArg(kernel, 0, sizeof(cl_mem), &bufA);
SetKernelArg0 ==
  /\ pc = "setArg0"
  /\ \E o \in CallOutcomes({"kernel"}, TRUE) :
       /\ Returned("clSetKernelArg", {"kernel"}, o)
       /\ status' = StatusOf(o)
       /\ Bound(0, "bufA", o)
  /\ out' = Append(out, "Set the kernel arguments")
  /\ pc' = "setArg1"
  /\ UNCHANGED <<handles, built, A, B, C, exitStatus, outCut, i, hostPtr, platforms, memVars, printedAt,
                 relCount, relOrder, printedIdx, dispatchVars>>

\* line 103: status = clSetKernelArg(kernel, 1, sizeof(cl_mem), &bufB);
SetKernelArg1 ==
  /\ pc = "setArg1"
  /\ \E o \in CallOutcomes({"kernel"}, TRUE) :
       /\ Unchecked("clSetKernelArg", {"kernel"}, o, "setArg2")
       /\ Bound(1, "bufB", o)
  /\ UNCHANGED <<handles, built, A, B, C, i, hostPtr, platforms, memVars, printedAt, relCount,
                 relOrder, printedIdx, dispatchVars>>

\* lines 104-105: status = clSetKernelArg(kernel, 2, sizeof(cl_mem), &bufC); check(status);
SetKernelArg2 ==
  /\ pc = "setArg2"
  /\ \E o \in CallOutcomes({"kernel"}, TRUE) :
       /\ Checked("clSetKernelArg", {"kernel"}, o, <<>>, "launch")
       /\ Bound(2, "bufC", o)
  /\ UNCHANGED <<handles, built, A, B, C, i, hostPtr, platforms, memVars, printedAt, relCount,
                 relOrder, printedIdx, dispatchVars>>

\* clEnqueueNDRangeKernel rejects a kernel with an argument never set
\* (CL_INVALID_KERNEL_ARGS) and a work-group size that does not divide the
\* global size (CL_INVALID_WORK_GROUP_SIZE)
ArgsSet == \A slot \in 0 .. 2 : kernelArgs[slot] # "unset"
LaunchPre == ArgsSet /\ RangeOk(N, Local)

\* the kernel vecadd dereferences each of its three arguments: a work-item
\* run with a NULL argument faults
DerefsNull(idx) ==
  \E a \in KernelReads(idx) \cup KernelWrites(idx) : kernelArgs[a[1]] \notin Buffers

\* the loads a faulting work-item performed before it died.  The store
\* comes after both loads; the two loads are unsequenced, so when one of
\* them faults the other may or may not have been done.
LoadsBeforeFault(idx) ==
  LET bound == {r \in KernelReads(idx) : kernelArgs[r[1]] \in Buffers}
  IN  IF bound = KernelReads(idx) THEN {bound} ELSE SUBSET bound

\* the work-item idx dies in the kernel: the process is killed, the loads
\* done before the fault are part of the history
KernelFault(idx, lines) ==
  /\ Killed(lines)
  /\ \E done \in LoadsBeforeFault(idx) :
       accesses' = accesses \cup {<<idx, "r", kernelArgs[r[1]], r[2]>> : r \in done}

\* lines 109-118: non-blocking launch of N work-items in groups of Local.
\* A device that runs commands as they are submitted starts the kernel
\* before the call returns when nothing is queued ahead of it: with a NULL
\* argument the process dies inside the call.
EnqueueNDRangeKernel ==
  /\ pc = "launch"
  /\ \E o \in CallOutcomes({"cmdQueue", "kernel"}, LaunchPre) :
       \/ /\ Checked("clEnqueueNDRangeKernel", {"cmdQueue", "kernel"}, o,
                     <<"Execute the kernel">>, "announce")
          /\ queue' = IF o = "ok" THEN Append(queue, "ndrange") ELSE queue
          /\ todo' = IF o = "ok" THEN WorkItems(N, Local) ELSE todo
          /\ UNCHANGED accesses
       \/ /\ o = "ok"
          /\ queue = <<>>
          /\ \E w \in WorkItems(N, Local) :
               /\ DerefsNull(GlobalId(w, Local))
               /\ KernelFault(GlobalId(w, Local), <<"Execute the kernel">>)
          /\ UNCHANGED <<queue, todo>>
  /\ UNCHANGED <<handles, built, kernelArgs, A, B, C, i, hostPtr, platforms, indeterminate, devMem, completed,
                 printedAt, relCount, relOrder, printedIdx, dispatchVars>>

\* line 120: printf
AnnounceFinished ==
  /\ pc = "announce"
  /\ out' = Append(out, "The kernel has finished execution on the device")
  /\ printedAt' = <<todo>>
  /\ pc' = "announceRead"
  /\ UNCHANGED <<outCut, status, handles, built, kernelArgs, A, B, C, exitStatus, calls,
                 faults, i, hostPtr, platforms, memVars, relCount, relOrder, printedIdx, usedAfterRelease,
                 dispatchVars>>

\* line 121: printf
AnnounceRead ==
  /\ pc = "announceRead"
  /\ out' = Append(out, "Read the device output buffer to the host output array")
  /\ pc' = "read"
  /\ UNCHANGED <<outCut, printedAt, status, handles, built, kernelArgs, A, B, C, exitStatus, calls,
                 faults, i, hostPtr, platforms, memVars, relCount, relOrder, printedIdx, usedAfterRelease,
                 dispatchVars>>

\* line 124: status = clEnqueueReadBuffer(cmdQueue, bufC, CL_TRUE, 0, datasize, C, ...);
\* blocking: on success the host waits until the device has run the command;
\* a NULL host pointer is rejected (CL_INVALID_VALUE)
EnqueueReadBuffer ==
  /\ pc = "read"
  /\ \E o \in CallOutcomes({"cmdQueue", "bufC"}, hostPtr["C"] = "valid") :
       IF o = "ok"
       THEN /\ queue' = Append(queue, "readC")
            /\ pc' = "waitRead"
            /\ usedAfterRelease' =
                 (usedAfterRelease
                    \/ \E h \in {"cmdQueue", "bufC"} : handles[h] = "released")
            /\ UNCHANGED <<status, calls, faults>>
       ELSE /\ Returned("clEnqueueReadBuffer", {"cmdQueue", "bufC"}, o)
            /\ status' = StatusOf(o)
            /\ pc' = "relKernel"
            /\ UNCHANGED queue
  /\ UNCHANGED <<handles, built, kernelArgs, A, B, C, out, outCut, exitStatus, i, hostPtr, platforms, indeterminate, todo,
                 devMem, accesses, completed, printedAt, relCount, relOrder, printedIdx, dispatchVars>>

\* lines 127-133: clReleaseX(h); the returned status is discarded.
\* A live object is released; NULL is rejected; releasing twice is a use
\* after release.
Release(at, api, h, next) ==
  /\ pc = at
  /\ calls' = Append(calls, <<api, IF Usable(handles[h]) THEN CL_SUCCESS
                                   ELSE CL_INVALID_VALUE>>)
  /\ handles' = IF Usable(handles[h]) THEN [handles EXCEPT ![h] = "released"]
                ELSE handles
  /\ relCount' = IF handles[h] \in {"valid", "stale", "released"}
                 THEN [relCount EXCEPT ![h] = @ + 1] ELSE relCount
  /\ relOrder' = IF Usable(handles[h]) THEN Append(relOrder, h) ELSE relOrder
  /\ usedAfterRelease' = (usedAfterRelease \/ handles[h] = "released")
  /\ pc' = next
  /\ UNCHANGED <<status, built, kernelArgs, A, B, C, out, outCut, exitStatus, faults, i,
                 hostPtr, platforms, memVars, printedAt, printedIdx, dispatchVars>>

ReleaseKernel == Release("relKernel", "clReleaseKernel", "kernel", "relProgram")
ReleaseProgram == Release("relProgram", "clReleaseProgram", "program", "relQueue")
ReleaseCommandQueue == Release("relQueue", "clReleaseCommandQueue", "cmdQueue", "relBufA")
ReleaseBufA == Release("relBufA", "clReleaseMemObject", "bufA", "relBufB")
\* line 131 releasing bufA a second time instead of bufB
ReleaseBufBAgainA == Release("relBufB", "clReleaseMemObject", "bufA", "relBufC")
ReleaseBufB == Release("relBufB", "clReleaseMemObject", "bufB", "relBufC")
ReleaseBufC == Release("relBufC", "clReleaseMemObject", "bufC", "relContext")
ReleaseContext == Release("relContext", "clReleaseContext", "context", "print")

\* a loop that stops one element early
PrintLoopCondShort(k) == k < N - 1
\* line 135: the loop condition  i < elements
PrintLoopCond(k) == k < N

\* lines 135-138: one iteration of the print loop: printf("%d", C[i]); printf("\n");
\* the load of C[i] through a NULL pointer kills the process; a never-written
\* element is printed as whatever int the memory holds
PrintElement ==
  /\ pc = "print"
  /\ PrintLoopCond(i)
  /\ IF hostPtr["C"] = "null"
     THEN /\ Killed(<<>>)
          /\ UNCHANGED <<memVars, printedAt, relCount, relOrder, printedIdx>>
     ELSE /\ out' = Append(out, Shown("C", C, i))
          /\ printedIdx' = Append(printedIdx, i)
          /\ i' = i + 1
          /\ UNCHANGED <<pc, status, handles, built, kernelArgs, A, B, C, exitStatus, outCut,
                         calls, faults, hostPtr, platforms, memVars, printedAt, relCount,
                         relOrder, usedAfterRelease>>
  /\ UNCHANGED dispatchVars

\* lines 135, 141-145: the loop ends; free the host arrays; return 0
Return0 ==
  /\ pc = "print"
  /\ ~PrintLoopCond(i)
  /\ pc' = "done"
  /\ exitStatus' = ExitCodeOf(0)
  /\ UNCHANGED <<status, handles, built, kernelArgs, A, B, C, out, outCut, calls, faults,
                 i, hostPtr, platforms, memVars, histVars, dispatchVars>>

----------------------------------------------------------------------------
(* The device: it runs the commands of the in-order queue one after the *)
(* other, while the host process is alive.  An enqueued command keeps   *)
(* the objects it uses alive (the runtime retains them), so a command   *)
(* that runs after the host released its handles uses live objects.     *)

QueueCmds == {queue[k] : k \in 1 .. Len(queue)}

\* the contents of the host array a write command copies
HostArray(cmd) == IF cmd = "writeA" THEN A ELSE B

\* the upload at the head of the queue runs
DevWrite ==
  /\ Running
  /\ queue # <<>>
  /\ Head(queue) \in {"writeA", "writeB"}
  /\ devMem' = [devMem EXCEPT ![TargetOf(Head(queue))] = HostArray(Head(queue))]
  /\ queue' = Tail(queue)
  /\ completed' = Append(completed, Head(queue))
  /\ indeterminate' = CopiedOnto(TargetOf(Head(queue)), HostArrayOf(Head(queue)))
  /\ UNCHANGED <<hostVars, todo, accesses, histVars, dispatchVars>>

\* the int a kernel argument points at: element j of the buffer bound to
\* the slot, in device memory mem
LoadArg(mem, slot, j) == mem[kernelArgs[slot]][j]

\* the kernel body for work-item idx: C[idx] = A[idx] + B[idx]
vecadd(idx, mem) ==
  LET ra == CHOOSE r \in KernelReads(idx) : r[1] = 0
      rb == CHOOSE r \in KernelReads(idx) : r[1] = 1
      sum == Add32(LoadArg(mem, ra[1], ra[2]), LoadArg(mem, rb[1], rb[2]))
  IN  [b \in Buffers |->
        [j \in Idx |->
          IF \E w \in KernelWrites(idx) : kernelArgs[w[1]] = b /\ w[2] = j
          THEN sum ELSE mem[b][j]]]

AccessesOf(idx) ==
  {<<idx, "r", kernelArgs[r[1]], r[2]>> : r \in KernelReads(idx)}
    \cup {<<idx, "w", kernelArgs[w[1]], w[2]>> : w \in KernelWrites(idx)}

\* the cells work-item idx stores to
Stored(idx) == {<<kernelArgs[w[1]], w[2]>> : w \in KernelWrites(idx)}
\* work-item idx loads an indeterminate value: so is the sum it stores
LoadsIndeterminate(idx) ==
  \E r \in KernelReads(idx) : <<kernelArgs[r[1]], r[2]>> \in indeterminate
\* the indeterminate cells once work-item idx has run
IndeterminateAfter(idx) ==
  IF LoadsIndeterminate(idx) THEN indeterminate \cup Stored(idx)
  ELSE indeterminate \ Stored(idx)

\* one work-item of the kernel command at the head of the queue runs; the
\* command completes with its last work-item.  A work-item that
\* dereferences a NULL argument kills the process.
WorkItem ==
  /\ Running
  /\ queue # <<>>
  /\ Head(queue) = "ndrange"
  /\ \E w \in todo :
       IF DerefsNull(GlobalId(w, Local))
       THEN /\ KernelFault(GlobalId(w, Local), <<>>)
            /\ UNCHANGED <<queue, todo, devMem, completed, printedAt, relCount,
                           relOrder, printedIdx>>
       ELSE /\ devMem' = Blanked(vecadd(GlobalId(w, Local), devMem),
                                     IndeterminateAfter(GlobalId(w, Local)))
            /\ indeterminate' = IndeterminateAfter(GlobalId(w, Local))
            /\ accesses' = accesses \cup AccessesOf(GlobalId(w, Local))
            /\ todo' = todo \ {w}
            /\ queue' = IF todo = {w} THEN Tail(queue) ELSE queue
            /\ completed' = IF todo = {w} THEN Append(completed, "ndrange") ELSE completed
            /\ UNCHANGED <<hostVars, histVars>>
  /\ UNCHANGED dispatchVars

\* the readback at the head of the queue runs and the blocking call returns
DevRead ==
  /\ Running
  /\ queue # <<>>
  /\ Head(queue) = "readC"
  /\ pc = "waitRead"
  /\ C' = devMem["bufC"]
  /\ indeterminate' = CopiedOnto("C", "bufC")
  /\ queue' = Tail(queue)
  /\ completed' = Append(completed, "readC")
  /\ status' = CL_SUCCESS
  /\ calls' = Append(calls, <<"clEnqueueReadBuffer", CL_SUCCESS>>)
  /\ pc' = "relKernel"
  /\ UNCHANGED <<handles, built, kernelArgs, A, B, out, outCut, exitStatus, faults, i,
                 hostPtr, platforms, todo, devMem, accesses, histVars, dispatchVars>>

----------------------------------------------------------------------------
(* The decomposition of the real index space into work-groups, one      *)
(* work-item per step: group dgroup, local id dlocal.                   *)

DispatchValidate ==
  /\ dpc = "validate"
  /\ dpc' = IF RangeOk(elements, workGroupSize) THEN "assign" ELSE "rejected"
  /\ UNCHANGED <<dgroup, dlocal, assigned, hostVars, memVars, histVars>>

DispatchAssign ==
  /\ dpc = "assign"
  /\ dgroup < NumGroupsOf(elements, workGroupSize)
  /\ LET gid == GlobalId(<<dgroup, dlocal>>, workGroupSize)
     IN  IF gid \in DOMAIN assigned
         THEN /\ assigned' = [assigned EXCEPT ![gid] = Append(@, <<dgroup, dlocal>>)]
              /\ UNCHANGED dpc
         ELSE /\ dpc' = "out_of_range"
              /\ UNCHANGED assigned
  /\ IF dlocal + 1 < workGroupSize
     THEN dlocal' = dlocal + 1 /\ UNCHANGED dgroup
     ELSE dlocal' = 0 /\ dgroup' = dgroup + 1
  /\ UNCHANGED <<hostVars, memVars, histVars>>

DispatchDone ==
  /\ dpc = "assign"
  /\ ~(dgroup < NumGroupsOf(elements, workGroupSize))
  /\ dpc' = "dispatched"
  /\ UNCHANGED <<dgroup, dlocal, assigned, hostVars, memVars, histVars>>

----------------------------------------------------------------------------
(* Specifications *)

InitMain ==
  /\ pc = "init"
  /\ status = CL_SUCCESS
  /\ handles = [h \in HandleNames |-> "unset"]
  /\ built = FALSE
  /\ kernelArgs = [slot \in 0 .. 2 |-> "unset"]
  /\ platforms \in 0 .. 1
  /\ hostPtr = [x \in HostArrays |-> "unset"]
  /\ indeterminate = (HostArrays \cup Buffers) \X Idx
  /\ A = [j \in Idx |-> 0]
  /\ B = [j \in Idx |-> 0]
  /\ C = [j \in Idx |-> 0]
  /\ out = <<>>
  /\ outCut = <<>>
  /\ exitStatus = 0 - 1
  /\ calls = <<>>
  /\ faults = 0
  /\ i = 0
  /\ queue = <<>>
  /\ todo = {}
  /\ devMem = [b \in Buffers |-> [j \in Idx |-> 0]]
  /\ accesses = {}
  /\ completed = <<>>
  /\ printedIdx = <<>>
  /\ printedAt = <<>>
  /\ relCount = [h \in HandleNames |-> 0]
  /\ relOrder = <<>>
  /\ usedAfterRelease = FALSE

Init ==
  /\ InitMain
  /\ dpc = "idle"
  /\ dgroup = 0
  /\ dlocal = 0
  /\ assigned = <<>>

Next ==
  \/ Malloc
  \/ InitInputs
  \/ GetPlatformIDs
  \/ GetDeviceIDs
  \/ CreateContext
  \/ CreateCommandQueue
  \/ CreateBufA
  \/ CreateBufB
  \/ CreateBufC
  \/ EnqueueWriteA
  \/ EnqueueWriteB
  \/ CreateProgramWithSource
  \/ BuildProgram
  \/ CreateKernel
  \/ SetKernelArg0
  \/ SetKernelArg1
  \/ SetKernelArg2
  \/ EnqueueNDRangeKernel
  \/ AnnounceFinished
  \/ AnnounceRead
  \/ EnqueueReadBuffer
  \/ ReleaseKernel
  \/ ReleaseProgram
  \/ ReleaseCommandQueue
  \/ ReleaseBufA
  \/ ReleaseBufB
  \/ ReleaseBufC
  \/ ReleaseContext
  \/ PrintElement
  \/ Return0
  \/ DevWrite
  \/ WorkItem
  \/ DevRead

Spec == Init /\ [][Next]_vars

InitDispatch ==
  /\ InitMain
  /\ dpc = "validate"
  /\ dgroup = 0
  /\ dlocal = 0
  /\ assigned = [k \in 0 .. (elements - 1) |-> <<>>]

NextDispatch ==
  \/ DispatchValidate
  \/ DispatchAssign
  \/ DispatchDone

SpecDispatch == InitDispatch /\ [][NextDispatch]_vars

----------------------------------------------------------------------------
(* Vocabulary of the properties *)

ReleaseApis == {"clReleaseKernel", "clReleaseProgram", "clReleaseCommandQueue",
                "clReleaseMemObject", "clReleaseContext"}
\* the k-th call issued is one of the fallible calls and returned an error
FailedCall(k) == calls[k][1] \notin ReleaseApis /\ calls[k][2] < 0
CallsOf(api) == {k \in 1 .. Len(calls) : calls[k][1] = api}
Completed(cmd) == \E k \in 1 .. Len(completed) : completed[k] = cmd
\* position of a command in the completion order (0: not completed)
DoneAt(cmd) == IF Completed(cmd)
               THEN CHOOSE k \in 1 .. Len(completed) : completed[k] = cmd ELSE 0
ExitedOk == pc = "done" /\ exitStatus = 0
\* the objects main() creates and releases
DeviceObjects == {"context", "cmdQueue", "bufA", "bufB", "bufC", "program", "kernel"}
DiagLines == <<"Create a program with source code",
               "Build (compile) the program for the device",
               "Create the vector addition kernel",
               "Set the kernel arguments",
               "Execute the kernel",
               "The kernel has finished execution on the device",
               "Read the device output buffer to the host output array">>
KernelLaunched == todo # {} \/ accesses # {} \/ Completed("ndrange")
                    \/ "ndrange" \in QueueCmds

----------------------------------------------------------------------------
(* C1: every run that completes successfully (exit status 0) leaves       *)
(* C[j] = 2 in the host output array for every index j.                   *)
C1_SuccessfulRunGivesTwos ==
  ExitedOk => \A j \in Idx : <<"C", j>> \notin indeterminate /\ C[j] = 2

(* C2: the process exits non-zero at the first failed device-API call: no *)
(* later call is issued after a call that returned a negative status, and *)
(* a run in which a call failed never exits with status 0.                *)
C2_AbortsAtFirstFailedCall ==
  \A k \in 1 .. Len(calls) :
    FailedCall(k) => (k = Len(calls) /\ exitStatus # 0)

(* C3: when no compute platform is available the platform lookup fails,  *)
(* no value line of C is ever printed and the run never exits with status *)
(* 0: it does not get past the check of the program creation (line 88),   *)
(* where it exits with status 255 after the first diagnostic line, unless *)
(* the runtime killed the process before.                                 *)
UpToLine88 == {"init", "initInputs", "getPlatform", "getDevice", "createContext",
               "createQueue", "createBufA", "createBufB", "createBufC", "writeA",
               "writeB", "createProgram", "aborted", "crashed"}
C3_NoPlatformNoOutput ==
  platforms = 0
    => /\ printedIdx = <<>>
       /\ exitStatus # 0
       /\ pc \in UpToLine88
       /\ Len(calls) >= 1 => calls[1] = <<"clGetPlatformIDs", CL_PLATFORM_NOT_FOUND_KHR>>
       /\ pc = "aborted"
            => /\ exitStatus = 255
               /\ out = <<"Create a program with source code", "ERROR. Exiting...">>
C3_Witness ==
  /\ platforms = 0
  /\ pc = "aborted"
  /\ exitStatus = 255
  /\ Len(calls) = 10
  /\ calls[1][2] < 0
  /\ calls[10] = <<"clCreateProgramWithSource", CL_INVALID_VALUE>>
  /\ printedIdx = <<>>

(* C4: once the blocking readback has run and returned, both uploads and  *)
(* the kernel have completed in submission order; the host prints no      *)
(* element of C the kernel has not written and the readback has not       *)
(* delivered; the kernel reads no element of A or B before its upload     *)
(* completed.                                                             *)
C4_ReadbackOrdersEverything ==
  /\ (Completed("readC")
        => /\ Completed("writeA") /\ Completed("writeB") /\ Completed("ndrange")
           /\ DoneAt("writeA") < DoneAt("writeB")
           /\ DoneAt("writeB") < DoneAt("ndrange"))
  /\ \A k \in 1 .. Len(printedIdx) :
       /\ Completed("readC")
       /\ \E a \in accesses : a[2] = "w" /\ a[3] = "bufC" /\ a[4] = printedIdx[k]
  /\ \A a \in accesses :
       /\ (a[2] = "r" /\ a[3] = "bufA") => Completed("writeA")
       /\ (a[2] = "r" /\ a[3] = "bufB") => Completed("writeB")

(* C5: a run that exits with status 0 has printed the diagnostic lines    *)
(* and then exactly N value lines, the k-th being C[k-1] in decimal: the  *)
(* indices 0..N-1 in order, each once.  While the loop runs, the value    *)
(* lines printed so far are C[0..i-1].                                    *)
C5_PrintsEachElementOnce ==
  /\ pc \in {"print", "done"}
       => /\ out = DiagLines \o [k \in 1 .. i |-> Shown("C", C, k - 1)]
          /\ printedIdx = [k \in 1 .. i |-> k - 1]
  /\ ExitedOk => (i = N /\ Len(out) = Len(DiagLines) + N)
C5_Witness ==
  /\ ExitedOk
  /\ Len(printedIdx) = N
  /\ \A j \in Idx :
       /\ <<"C", j>> \notin indeterminate
       /\ C[j] = 2
       /\ out[Len(DiagLines) + 1 + j] = "2"

(* C6: the dispatch parameters partition the index space exactly: the     *)
(* work-group size divides the index-space size, 8 work-groups result,    *)
(* and every global index 0..elements-1 is the id of exactly one          *)
(* work-item of exactly one work-group.                                   *)
C6_DispatchPartitionsIndexSpace ==
  /\ RangeOk(elements, workGroupSize)
  /\ NumGroupsOf(elements, workGroupSize) = 8
  /\ dpc \notin {"rejected", "out_of_range"}
  /\ \A k \in DOMAIN assigned : Len(assigned[k]) <= 1
  /\ dpc = "dispatched"
       => /\ DOMAIN assigned = 0 .. (elements - 1)
          /\ \A k \in DOMAIN assigned :
               /\ Len(assigned[k]) = 1
               /\ assigned[k][1][1] \in 0 .. 7
               /\ assigned[k][1][2] \in 0 .. (workGroupSize - 1)
          /\ {assigned[k][1][1] : k \in DOMAIN assigned} = 0 .. 7
C6_Witness ==
  /\ dpc = "dispatched"
  /\ dgroup = 8
  /\ assigned[elements - 1] = <<(<<7, workGroupSize - 1>>)>>

(* C7: under every interleaving each work-item idx writes only slot idx   *)
(* of the output argument and reads only slot idx of the two input        *)
(* arguments; no two work-items write the same slot; no work-item reads a *)
(* slot another writes; and once the kernel command has completed the     *)
(* output buffer holds A[j] + B[j] in every slot, whatever the order (an  *)
(* input the uploads never wrote holds some int: the sum is then that     *)
(* indeterminate int plus the other input).                               *)
C7_WorkItemsAreIndependent ==
  /\ \A a \in accesses :
       /\ a[4] = a[1]
       /\ a[2] = "w" => a[3] = kernelArgs[2]
       /\ a[2] = "r" => a[3] \in {kernelArgs[0], kernelArgs[1]}
  /\ \A a, b \in accesses :
       (b[2] = "w" /\ a[3] = b[3] /\ a[4] = b[4]) => a[1] = b[1]
  /\ (Completed("ndrange") /\ kernelArgs[2] = "bufC")
       => \A j \in Idx :
            IF <<kernelArgs[0], j>> \in indeterminate
                 \/ <<kernelArgs[1], j>> \in indeterminate
            THEN <<"bufC", j>> \in indeterminate
            ELSE /\ <<"bufC", j>> \notin indeterminate
                 /\ devMem["bufC"][j]
                      = Add32(LoadArg(devMem, 0, j), LoadArg(devMem, 1, j))
C7_Witness ==
  /\ Completed("writeA") /\ Completed("writeB")
  /\ Completed("ndrange")
  /\ Cardinality(accesses) = 3 * N
  /\ \A j \in Idx : <<"bufC", j>> \notin indeterminate /\ devMem["bufC"][j] = 2

(* C8: if the binding of any of the three kernel arguments returns a      *)
(* negative status, the kernel is never launched and the run can only end *)
(* by aborting with a non-zero exit status.                               *)
C8_BindingErrorFailsRun ==
  (\E k \in CallsOf("clSetKernelArg") : calls[k][2] < 0)
    => /\ ~KernelLaunched
       /\ pc \in {"setArg1", "setArg2", "launch", "aborted"}
       /\ pc = "aborted" => exitStatus = 255
C8_Witness ==
  /\ pc = "aborted"
  /\ exitStatus = 255
  /\ Cardinality(CallsOf("clSetKernelArg")) = 3
  /\ \E k \in CallsOf("clSetKernelArg") :
       /\ calls[k][2] < 0
       /\ k + 2 \in CallsOf("clSetKernelArg")
       /\ calls[k + 2][2] = 0
  /\ CallsOf("clEnqueueNDRangeKernel") # {}

(* C9: when the line "The kernel has finished execution on the device" is *)
(* printed, every work-item of the launched kernel has finished.          *)
C9_FinishedLineAfterKernel == printedAt # <<>> => printedAt[1] = {}

(* C10: every device object created is released exactly once, the        *)
(* context after all the others; no released handle is passed to a       *)
(* device-API call; the readback has returned, with no readback in       *)
(* flight, before the first release; and the print loop runs after the   *)
(* releases and issues no device-API call.                               *)
C10_ReleaseDiscipline ==
  /\ ~usedAfterRelease
  /\ \A h \in HandleNames : relCount[h] <= 1
  /\ handles["context"] = "released"
       => \A h \in DeviceObjects : handles[h] # "valid"
  /\ relOrder # <<>>
       => (CallsOf("clEnqueueReadBuffer") # {} /\ "readC" \notin QueueCmds)
  /\ printedIdx # <<>> => CallsOf("clReleaseContext") # {}
  /\ pc \in {"print", "done"}
       => /\ \A h \in DeviceObjects :
               /\ handles[h] \in {"released", "null"}
               /\ handles[h] = "released" <=> relCount[h] = 1
          /\ calls[Len(calls)][1] = "clReleaseContext"
C10_Witness ==
  /\ ExitedOk
  /\ relOrder = <<"kernel", "program", "cmdQueue", "bufA", "bufB", "bufC", "context">>
  /\ \A h \in DeviceObjects : relCount[h] = 1
  /\ Completed("readC")
  /\ Len(printedIdx) = N

====
